---- MODULE Spec2Model ----
(***************************************************************************)
(* Model of toda's mount orchestration (src/main.rs: main, inject, resume, *)
(* signal_handler) and of the injector chain (src/injector/                *)
(* multi_injector.rs).                                                     *)
(*                                                                         *)
(* The host is the main thread.  Every closure handed to                   *)
(* namespace::with_mnt_pid_namespace is a worker running concurrently with *)
(* it.  One action is one call of the source; a thread whose pc names a    *)
(* call is inside that call (or about to make it) until the action fires.  *)
(***************************************************************************)
EXTENDS Naturals, Sequences, FiniteSets

\* Requests the FUSE session hands to the dispatcher in one run.
MaxRequests == 3

\* Worker threads of the dispatcher's runtime.
PoolThreads == 1

\* ------------------------------------------------------------------ bounds
\* Recovery workers that may be alive at once (the loop of resume spawns one
\* per attempt and joins only the last one).
MaxWorkers == 2
\* Signals delivered during one run.
MaxSignals == 2

\* -------------------------------------------------------- program constants
\* Length of SIGNAL_MSG, the token signal_handler writes.
SignalMsgLen == 6
\* Length of the buffer main reads the token into.
SignalBufLen == 6

VARIABLES
    hpc,            \* position of the main thread
    iw,             \* the in-namespace worker of inject
    rw,             \* the in-namespace workers of resume, by slot
    cur,            \* slot of the worker of the current recovery attempt
    before_mount,   \* latch: worker -> host, "prepared, go and mount"
    after_mount,    \* latch: host -> worker, "mounted, go and run"
    before_recover, \* per slot, latch: worker -> host
    after_recover,  \* per slot, latch: host -> worker
    mounted,        \* the FUSE mount is in place
    enabled,        \* MountInjectionGuard's enabled flag
    pipe,           \* bytes buffered in the self-pipe
    signals,        \* signals delivered since the handlers were installed
    exit_code,      \* "none" while the process runs
    last_err,       \* what the last recover_mount returned
    resume_calls,   \* how many times main called resume
    mount_called,   \* the host has called injection.mount
    fuse_node,      \* mkfuse_node has returned in the worker of inject
    iw_failed_at,   \* the call that made the worker of inject return Err
    host_failed_at, \* the call that made inject return Err on the host
    \* --- one call of the injector chain
    conf,           \* the configuration MultiInjector::build was given
    injectors,      \* MultiInjector.injectors
    call,           \* the call in progress: its operation, method and path
    ci_idx,         \* position of the loop over injectors
    ci_invoked,     \* the injectors invoked so far, as positions of the list
    ci_returns,     \* what each of them returned
    ci_result,      \* what the call returned, "none" until it has
    clock,          \* time the call has been suspended for
    attr,           \* the reply or attribute record the call may mutate
    \* --- the dispatcher of filesystem requests
    thread_pool,    \* AsyncFileSystem.thread_pool: "none", "alive", "dropped"
    next_req,       \* number of the next request the session hands over
    req             \* the requests: operation, task position, result, sink

orch_vars == <<hpc, iw, rw, cur, before_mount, after_mount, before_recover,
               after_recover, mounted, enabled, pipe, signals, exit_code,
               last_err, resume_calls, mount_called, fuse_node, iw_failed_at,
               host_failed_at>>

chain_vars == <<conf, injectors, call, ci_idx, ci_invoked, ci_returns,
                ci_result, clock, attr>>

\* What main, inject, resume and their workers leave alone.
disp_vars == <<thread_pool, next_req, req>>

beside_orch == <<chain_vars, disp_vars>>

vars == <<orch_vars, chain_vars, disp_vars>>

Slots == 1..MaxWorkers

\* A worker: its position, its UnionReplacer and the closure's result.
NewWorker == [pc |-> "idle", replacer |-> "none", result |-> "none"]

Min(a, b) == IF a < b THEN a ELSE b

\* The replacer holds the tracer attachment (the target's threads are
\* stopped) from a successful prepare until it is dropped.
Attached(w) == w.replacer \in {"prepared", "ran"}

\* The worker's thread exists and has not returned.
Alive(w) == w.pc \notin {"idle", "done"}

Running == exit_code = "none"

\* futex::lock(): a latch is "held" until its guard is dropped.  The source
\* releases a latch by drop(guard), so every drop of a guard releases it,
\* the implicit one of an early return included.
Released(latch) == latch = "released"

\* ------------------------------------------------------------ main, part 1
\* main.rs 186-204: mlockall, the self-pipe, the two signal handlers, the
\* options and the logger.  Any `?` of these ends the process with an error.
Setup ==
    /\ Running /\ hpc = "setup"
    /\ \/ hpc' = "parse_config"
       \/ hpc' = "main_err"
    /\ UNCHANGED <<iw, rw, cur, before_mount, after_mount, before_recover,
                   after_recover, mounted, enabled, pipe, signals, exit_code,
                   last_err, resume_calls, mount_called,
                   fuse_node, iw_failed_at, host_failed_at,
                   beside_orch>>

\* signal_handler: write(SIGNAL_PIPE_WRITER, &SIGNAL_MSG).  It runs on
\* whatever the process is doing, once the handlers are installed.
SignalHandler ==
    /\ Running /\ hpc \notin {"setup", "main_err"}
    /\ signals < MaxSignals
    /\ signals' = signals + 1
    /\ pipe' = pipe + SignalMsgLen
    /\ UNCHANGED <<hpc, iw, rw, cur, before_mount, after_mount,
                   before_recover, after_recover, mounted, enabled, exit_code,
                   last_err, resume_calls, mount_called,
                   fuse_node, iw_failed_at, host_failed_at,
                   beside_orch>>

\* ------------------------------------------------------------------ inject
\* What inject's early return drops: after_mount_guard once the latches
\* exist (and the join handle, which detaches the worker).
InjectErr ==
    /\ hpc' = "inject_err"
    /\ after_mount' = "released"

\* A faulty variant of ParseConfig: a document that does not parse is replaced by
\* the empty configuration and inject goes on.
ParseConfig_DefaultOnErr ==
    /\ Running /\ hpc = "parse_config"
    /\ hpc' = "read_fuse_dev"
    /\ \/ UNCHANGED host_failed_at
       \/ host_failed_at' = "parse_config"
    /\ UNCHANGED <<iw, rw, cur, before_mount, after_mount, before_recover,
                   after_recover, mounted, enabled, pipe, signals, exit_code,
                   last_err, resume_calls, mount_called,
                   fuse_node, iw_failed_at, beside_orch>>

\* main.rs 66: serde_json::from_reader(stdin)?
ParseConfig ==
    /\ Running /\ hpc = "parse_config"
    /\ \/ hpc' = "read_fuse_dev" /\ UNCHANGED host_failed_at
       \/ hpc' = "inject_err" /\ host_failed_at' = "parse_config"
    /\ UNCHANGED <<iw, rw, cur, before_mount, after_mount, before_recover,
                   after_recover, mounted, enabled, pipe, signals, exit_code,
                   last_err, resume_calls, mount_called,
                   fuse_node, iw_failed_at, beside_orch>>

\* main.rs 70: fuse_device::read_fuse_dev_t()?
ReadFuseDev ==
    /\ Running /\ hpc = "read_fuse_dev"
    /\ \/ hpc' = "spawn" /\ UNCHANGED host_failed_at
       \/ hpc' = "inject_err" /\ host_failed_at' = "read_fuse_dev"
    /\ UNCHANGED <<iw, rw, cur, before_mount, after_mount, before_recover,
                   after_recover, mounted, enabled, pipe, signals, exit_code,
                   last_err, resume_calls, mount_called,
                   fuse_node, iw_failed_at, beside_orch>>

\* main.rs 72-103: the two latches, then with_mnt_pid_namespace(closure)?.
\* On failure the closure is dropped unrun, and both guards with it.
SpawnInjectWorker ==
    /\ Running /\ hpc = "spawn"
    /\ \/ /\ hpc' = "wait_before_mount"
          /\ iw' = [NewWorker EXCEPT !.pc = "canonicalize"]
          /\ UNCHANGED <<before_mount, after_mount, host_failed_at>>
       \/ /\ InjectErr
          /\ host_failed_at' = "spawn"
          /\ before_mount' = "released"
          /\ UNCHANGED iw
    /\ UNCHANGED <<rw, cur, before_recover, after_recover, mounted, enabled,
                   pipe, signals, exit_code, last_err, resume_calls,
                   mount_called,
                   fuse_node, iw_failed_at, beside_orch>>

\* main.rs 105: before_mount_waiter.wait()?
WaitBeforeMount ==
    /\ Running /\ hpc = "wait_before_mount"
    /\ \/ /\ Released(before_mount)
          /\ hpc' = "create_injection"
          /\ UNCHANGED <<after_mount, host_failed_at>>
       \/ InjectErr /\ host_failed_at' = "wait"
    /\ UNCHANGED <<iw, rw, cur, before_mount, before_recover, after_recover,
                   mounted, enabled, pipe, signals, exit_code, last_err,
                   resume_calls, mount_called,
                   fuse_node, iw_failed_at, beside_orch>>

\* What makes MountInjector::create_injection return Err: the build of the
\* injector chain from the configuration, or a step of its own.
CreateInjectionErrs == {"build", "create_injection"}

\* main.rs 107: MountInjector::create_injection(&option.path, config)?
CreateInjection ==
    /\ Running /\ hpc = "create_injection"
    /\ \/ /\ hpc' = "mount"
          /\ UNCHANGED <<after_mount, host_failed_at>>
       \/ /\ InjectErr
          /\ host_failed_at' \in CreateInjectionErrs
    /\ UNCHANGED <<iw, rw, cur, before_mount, before_recover, after_recover,
                   mounted, enabled, pipe, signals, exit_code, last_err,
                   resume_calls, mount_called,
                   fuse_node, iw_failed_at, beside_orch>>

\* main.rs 108: injection.mount(option.pid)?
Mount ==
    /\ Running /\ hpc = "mount"
    /\ mount_called' = TRUE
    /\ \/ /\ hpc' = "drop_after_mount_guard"
          /\ mounted' = TRUE
          /\ UNCHANGED <<after_mount, host_failed_at>>
       \/ /\ InjectErr
          /\ host_failed_at' = "mount"
          /\ UNCHANGED mounted
    /\ UNCHANGED <<iw, rw, cur, before_mount, before_recover, after_recover,
                   enabled, pipe, signals, exit_code, last_err, resume_calls,
                   fuse_node, iw_failed_at, beside_orch>>

\* main.rs 110: drop(after_mount_guard)
DropAfterMountGuard ==
    /\ Running /\ hpc = "drop_after_mount_guard"
    /\ after_mount' = "released"
    /\ hpc' = "join"
    /\ UNCHANGED <<iw, rw, cur, before_mount, before_recover, after_recover,
                   mounted, enabled, pipe, signals, exit_code, last_err,
                   resume_calls, mount_called,
                   fuse_node, iw_failed_at, host_failed_at,
                   beside_orch>>

\* A faulty variant of JoinInjectWorker: the join is forgotten.
JoinInjectWorker_NoJoin ==
    /\ Running /\ hpc = "join"
    /\ hpc' = "enable_injection"
    /\ UNCHANGED <<iw, rw, cur, before_mount, after_mount, before_recover,
                   after_recover, mounted, enabled, pipe, signals, exit_code,
                   last_err, resume_calls, mount_called,
                   fuse_node, iw_failed_at, host_failed_at,
                   beside_orch>>

\* main.rs 113: handler.join(), whose result is thrown away.
JoinInjectWorker ==
    /\ Running /\ hpc = "join"
    /\ iw.pc = "done"
    /\ hpc' = "enable_injection"
    /\ UNCHANGED <<iw, rw, cur, before_mount, after_mount, before_recover,
                   after_recover, mounted, enabled, pipe, signals, exit_code,
                   last_err, resume_calls, mount_called,
                   fuse_node, iw_failed_at, host_failed_at,
                   beside_orch>>

\* main.rs 115-117: mount_guard.enable_injection(); Ok(mount_guard)
EnableInjection ==
    /\ Running /\ hpc = "enable_injection"
    /\ enabled' = TRUE
    /\ hpc' = "read_signal"
    /\ UNCHANGED <<iw, rw, cur, before_mount, after_mount, before_recover,
                   after_recover, mounted, pipe, signals, exit_code, last_err,
                   resume_calls, mount_called,
                   fuse_node, iw_failed_at, host_failed_at,
                   beside_orch>>

\* -------------------------------------------------- the worker of inject
\* A `?` of the closure: the closure returns Err.
WorkerFails(w) == [w EXCEPT !.pc = "unwind", !.result = "Err"]

\* The closure's locals are dropped on its return, the replacer among them.
WorkerUnwinds(w) ==
    [w EXCEPT !.pc = "envdrop",
              !.replacer = IF @ = "none" THEN "none" ELSE "dropped"]

IwStep(pc) == Running /\ iw.pc = pc

IwRest == UNCHANGED <<hpc, rw, cur, before_recover, after_recover, mounted,
                      enabled, pipe, signals, exit_code, last_err,
                      resume_calls, mount_called, host_failed_at,
                      beside_orch>>

\* main.rs 78: path.canonicalize()?
IwCanonicalize ==
    /\ IwStep("canonicalize")
    /\ \/ iw' = [iw EXCEPT !.pc = "prepare"] /\ UNCHANGED iw_failed_at
       \/ iw' = WorkerFails(iw) /\ iw_failed_at' = "canonicalize"
    /\ UNCHANGED <<before_mount, after_mount, fuse_node>> /\ IwRest

\* main.rs 81-82: UnionReplacer::new(); replacer.prepare(..)?
IwPrepare ==
    /\ IwStep("prepare")
    /\ \/ /\ iw' = [iw EXCEPT !.pc = "mkfuse_node", !.replacer = "prepared"]
          /\ UNCHANGED iw_failed_at
       \/ /\ iw' = [WorkerFails(iw) EXCEPT !.replacer = "new"]
          /\ iw_failed_at' = "prepare"
    /\ UNCHANGED <<before_mount, after_mount, fuse_node>> /\ IwRest

\* main.rs 84-86: fuse_device::mkfuse_node(fuse_dev); its Err is logged and
\* the closure goes on as after Ok.
IwMkfuseNode ==
    /\ IwStep("mkfuse_node")
    /\ iw' = [iw EXCEPT !.pc = "drop_before_mount_guard"]
    /\ fuse_node' = "returned"
    /\ UNCHANGED <<before_mount, after_mount, iw_failed_at>> /\ IwRest

\* main.rs 89: drop(before_mount_guard)
IwDropBeforeMountGuard ==
    /\ IwStep("drop_before_mount_guard")
    /\ before_mount' = "released"
    /\ iw' = [iw EXCEPT !.pc = "wait"]
    /\ UNCHANGED <<after_mount, fuse_node, iw_failed_at>> /\ IwRest

\* main.rs 91: after_mount_waiter.wait()?
IwWaitAfterMount ==
    /\ IwStep("wait")
    /\ \/ /\ Released(after_mount)
          /\ iw' = [iw EXCEPT !.pc = "run"]
          /\ UNCHANGED iw_failed_at
       \/ iw' = WorkerFails(iw) /\ iw_failed_at' = "wait"
    /\ UNCHANGED <<before_mount, after_mount, fuse_node>> /\ IwRest

\* main.rs 96: replacer.run()?
IwRun ==
    /\ IwStep("run")
    /\ \/ /\ iw' = [iw EXCEPT !.pc = "drop_replacer", !.replacer = "ran"]
          /\ UNCHANGED iw_failed_at
       \/ iw' = WorkerFails(iw) /\ iw_failed_at' = "run"
    /\ UNCHANGED <<before_mount, after_mount, fuse_node>> /\ IwRest

\* main.rs 97-100: drop(replacer); Ok(())
IwDropReplacer ==
    /\ IwStep("drop_replacer")
    /\ iw' = [iw EXCEPT !.pc = "envdrop", !.replacer = "dropped",
                        !.result = "Ok"]
    /\ UNCHANGED <<before_mount, after_mount, fuse_node, iw_failed_at>>
    /\ IwRest

\* An early return of the closure (main.rs 78, 82, 91, 96): its locals go.
IwUnwind ==
    /\ IwStep("unwind")
    /\ iw' = WorkerUnwinds(iw)
    /\ UNCHANGED <<before_mount, after_mount, fuse_node, iw_failed_at>>
    /\ IwRest

\* A faulty variant of IwEnvDrop: the guard the closure captured is leaked, not
\* dropped, when the closure goes.
IwEnvDrop_LeaksGuard ==
    /\ IwStep("envdrop")
    /\ iw' = [iw EXCEPT !.pc = "done"]
    /\ UNCHANGED <<before_mount, after_mount, fuse_node, iw_failed_at>>
    /\ IwRest

\* The closure itself is dropped once it has returned, and with it what it
\* captured: before_mount_guard, unless line 89 already dropped it.
IwEnvDrop ==
    /\ IwStep("envdrop")
    /\ before_mount' = "released"
    /\ iw' = [iw EXCEPT !.pc = "done"]
    /\ UNCHANGED <<after_mount, fuse_node, iw_failed_at>> /\ IwRest

\* ------------------------------------------------------------ main, part 2
\* A faulty variant of ReadSignal: the read does not block on an empty pipe.
ReadSignal_NonBlocking ==
    /\ Running /\ hpc = "read_signal"
    /\ pipe' = pipe - Min(pipe, SignalBufLen)
    /\ hpc' = "disable_injection"
    /\ resume_calls' = resume_calls + 1
    /\ UNCHANGED <<iw, rw, cur, before_mount, after_mount, before_recover,
                   after_recover, mounted, enabled, signals, exit_code,
                   last_err, mount_called,
                   fuse_node, iw_failed_at, host_failed_at,
                   beside_orch>>

\* main.rs 209-213: read(reader, buf) blocks until the pipe holds a byte and
\* takes at most buf.len() of them; then main calls resume.  The handlers are
\* installed by signal(), which restarts an interrupted read.
ReadSignal ==
    /\ Running /\ hpc = "read_signal"
    /\ pipe > 0
    /\ pipe' = pipe - Min(pipe, SignalBufLen)
    /\ hpc' = "disable_injection"
    /\ resume_calls' = resume_calls + 1
    /\ UNCHANGED <<iw, rw, cur, before_mount, after_mount, before_recover,
                   after_recover, mounted, enabled, signals, exit_code,
                   last_err, mount_called,
                   fuse_node, iw_failed_at, host_failed_at,
                   beside_orch>>

\* ------------------------------------------------------------------ resume
\* main.rs 122: mount_guard.disable_injection()
DisableInjection ==
    /\ Running /\ hpc = "disable_injection"
    /\ enabled' = FALSE
    /\ hpc' = "spawn_recover"
    /\ UNCHANGED <<iw, rw, cur, before_mount, after_mount, before_recover,
                   after_recover, mounted, pipe, signals, exit_code, last_err,
                   resume_calls, mount_called,
                   fuse_node, iw_failed_at, host_failed_at,
                   beside_orch>>

\* The thread of a worker that has returned is gone: its slot is free.
Free(s) == rw[s].pc \in {"idle", "done"}

FreeSlot == CHOOSE s \in Slots : Free(s) /\ \A t \in Slots : Free(t) => s <= t

\* main.rs 125-153: a fresh pair of latches, then
\* with_mnt_pid_namespace(closure)?.  Each iteration of the loop spawns a
\* new worker; the handle of the previous one was dropped by `continue`.
SpawnRecoverWorker ==
    /\ Running /\ hpc = "spawn_recover"
    /\ \E s \in Slots : Free(s)
    /\ \/ /\ hpc' = "wait_before_recover"
          /\ cur' = FreeSlot
          /\ rw' = [rw EXCEPT ![FreeSlot] =
                        [NewWorker EXCEPT !.pc = "canonicalize"]]
          /\ before_recover' = [before_recover EXCEPT ![FreeSlot] = "held"]
          /\ after_recover' = [after_recover EXCEPT ![FreeSlot] = "held"]
       \/ /\ hpc' = "resume_err"
          /\ UNCHANGED <<rw, cur, before_recover, after_recover,
                   fuse_node, iw_failed_at, host_failed_at,
                   beside_orch>>
    /\ UNCHANGED <<iw, before_mount, after_mount, mounted, enabled, pipe,
                   signals, exit_code, last_err, resume_calls, mount_called,
                   fuse_node, iw_failed_at, host_failed_at,
                   beside_orch>>

\* main.rs 155: before_recover_waiter.wait()?  The early return drops
\* after_recover_guard.
WaitBeforeRecover ==
    /\ Running /\ hpc = "wait_before_recover"
    /\ \/ /\ Released(before_recover[cur])
          /\ hpc' = "recover_mount"
          /\ UNCHANGED after_recover
       \/ /\ hpc' = "resume_err"
          /\ after_recover' = [after_recover EXCEPT ![cur] = "released"]
    /\ UNCHANGED <<iw, rw, cur, before_mount, after_mount, before_recover,
                   mounted, enabled, pipe, signals, exit_code, last_err,
                   resume_calls, mount_called,
                   fuse_node, iw_failed_at, host_failed_at,
                   beside_orch>>

\* The values recover_mount returns.
RecoverResults == {"Ok", "EBUSY", "EINVAL"}

\* A faulty variant of RecoverMount: the loop is left whatever recover_mount returns.
RecoverMount_AlwaysBreak ==
    /\ Running /\ hpc = "recover_mount"
    /\ \E r \in RecoverResults :
         /\ last_err' = r
         /\ mounted' = IF r = "Ok" THEN FALSE ELSE mounted
         /\ hpc' = "drop_after_recover_guard"
    /\ UNCHANGED <<iw, rw, cur, before_mount, after_mount, before_recover,
                   after_recover, enabled, pipe, signals, exit_code,
                   resume_calls, mount_called,
                   fuse_node, iw_failed_at, host_failed_at,
                   beside_orch>>

\* main.rs 157: if let Err(err) = mount_guard.recover_mount(option.pid)
RecoverMount ==
    /\ Running /\ hpc = "recover_mount"
    /\ \E r \in RecoverResults :
         /\ last_err' = r
         /\ mounted' = IF r = "Ok" THEN FALSE ELSE mounted
         /\ hpc' = IF r = "Ok" THEN "drop_after_recover_guard" ELSE "retry"
    /\ UNCHANGED <<iw, rw, cur, before_mount, after_mount, before_recover,
                   after_recover, enabled, pipe, signals, exit_code,
                   resume_calls, mount_called,
                   fuse_node, iw_failed_at, host_failed_at,
                   beside_orch>>

\* main.rs 158-162: log, drop(after_recover_guard), continue.  The error is
\* not looked at.
Retry ==
    /\ Running /\ hpc = "retry"
    /\ after_recover' = [after_recover EXCEPT ![cur] = "released"]
    /\ hpc' = "spawn_recover"
    /\ UNCHANGED <<iw, rw, cur, before_mount, after_mount, before_recover,
                   mounted, enabled, pipe, signals, exit_code, last_err,
                   resume_calls, mount_called,
                   fuse_node, iw_failed_at, host_failed_at,
                   beside_orch>>

\* main.rs 164-166: drop(after_recover_guard); break handler
DropAfterRecoverGuard ==
    /\ Running /\ hpc = "drop_after_recover_guard"
    /\ after_recover' = [after_recover EXCEPT ![cur] = "released"]
    /\ hpc' = "join_recover"
    /\ UNCHANGED <<iw, rw, cur, before_mount, after_mount, before_recover,
                   mounted, enabled, pipe, signals, exit_code, last_err,
                   resume_calls, mount_called,
                   fuse_node, iw_failed_at, host_failed_at,
                   beside_orch>>

\* main.rs 170-172: handler.join(), whose result is thrown away; Ok(())
JoinRecoverWorker ==
    /\ Running /\ hpc = "join_recover"
    /\ rw[cur].pc = "done"
    /\ hpc' = "resume_ok"
    /\ UNCHANGED <<iw, rw, cur, before_mount, after_mount, before_recover,
                   after_recover, mounted, enabled, pipe, signals, exit_code,
                   last_err, resume_calls, mount_called,
                   fuse_node, iw_failed_at, host_failed_at,
                   beside_orch>>

\* main.rs 185, 206, 213-215: main returns what inject or resume returned,
\* and the process ends, whatever its other threads are doing.
Exit ==
    /\ Running
    /\ hpc \in {"main_err", "inject_err", "resume_err", "resume_ok"}
    /\ exit_code' = IF hpc = "resume_ok" THEN "zero" ELSE "nonzero"
    /\ UNCHANGED <<hpc, iw, rw, cur, before_mount, after_mount,
                   before_recover, after_recover, mounted, enabled, pipe,
                   signals, last_err, resume_calls, mount_called,
                   fuse_node, iw_failed_at, host_failed_at,
                   beside_orch>>

\* ------------------------------------------------- the workers of resume
RwStep(s, pc) == Running /\ rw[s].pc = pc

RwRest == UNCHANGED <<hpc, iw, cur, before_mount, after_mount, mounted,
                      enabled, pipe, signals, exit_code, last_err,
                      resume_calls, mount_called, fuse_node, iw_failed_at,
                      host_failed_at,
                      beside_orch>>

\* main.rs 134-135: path.canonicalize()?; encode_path(&path)?  Both compute
\* a path from a path and touch nothing another thread sees.
RwCanonicalize(s) ==
    /\ RwStep(s, "canonicalize")
    /\ \/ rw' = [rw EXCEPT ![s].pc = "prepare"]
       \/ rw' = [rw EXCEPT ![s] = WorkerFails(@)]
    /\ UNCHANGED <<before_recover, after_recover>> /\ RwRest

\* main.rs 139-140: UnionReplacer::new(); replacer.prepare(..)?
RwPrepare(s) ==
    /\ RwStep(s, "prepare")
    /\ \/ rw' = [rw EXCEPT ![s].pc = "run", ![s].replacer = "prepared"]
       \/ rw' = [rw EXCEPT ![s] =
                     [WorkerFails(@) EXCEPT !.replacer = "new"]]
    /\ UNCHANGED <<before_recover, after_recover>> /\ RwRest

\* main.rs 142: replacer.run()?
RwRun(s) ==
    /\ RwStep(s, "run")
    /\ \/ rw' = [rw EXCEPT ![s].pc = "drop_before_recover_guard",
                           ![s].replacer = "ran"]
       \/ rw' = [rw EXCEPT ![s] = WorkerFails(@)]
    /\ UNCHANGED <<before_recover, after_recover>> /\ RwRest

\* main.rs 144: drop(before_recover_guard)
RwDropBeforeRecoverGuard(s) ==
    /\ RwStep(s, "drop_before_recover_guard")
    /\ before_recover' = [before_recover EXCEPT ![s] = "released"]
    /\ rw' = [rw EXCEPT ![s].pc = "wait"]
    /\ UNCHANGED after_recover /\ RwRest

\* main.rs 145: after_recover_waiter.wait()?
RwWaitAfterRecover(s) ==
    /\ RwStep(s, "wait")
    /\ \/ /\ Released(after_recover[s])
          /\ rw' = [rw EXCEPT ![s].pc = "drop_replacer"]
       \/ rw' = [rw EXCEPT ![s] = WorkerFails(@)]
    /\ UNCHANGED <<before_recover, after_recover>> /\ RwRest

\* main.rs 147-150: drop(replacer); Ok(())
RwDropReplacer(s) ==
    /\ RwStep(s, "drop_replacer")
    /\ rw' = [rw EXCEPT ![s].pc = "envdrop", ![s].replacer = "dropped",
                        ![s].result = "Ok"]
    /\ UNCHANGED <<before_recover, after_recover>> /\ RwRest

\* An early return of the closure (main.rs 134, 135, 140, 142, 145): its
\* locals go.
RwUnwind(s) ==
    /\ RwStep(s, "unwind")
    /\ rw' = [rw EXCEPT ![s] = WorkerUnwinds(@)]
    /\ UNCHANGED <<before_recover, after_recover>> /\ RwRest

\* The closure is dropped, and before_recover_guard with it unless line 144
\* already dropped it.
RwEnvDrop(s) ==
    /\ RwStep(s, "envdrop")
    /\ before_recover' = [before_recover EXCEPT ![s] = "released"]
    /\ rw' = [rw EXCEPT ![s].pc = "done"]
    /\ UNCHANGED after_recover /\ RwRest

\* ----------------------------------------------------------- specification
OrchInit ==
    /\ hpc = "setup"
    /\ iw = NewWorker
    /\ rw = [s \in Slots |-> NewWorker]
    /\ cur = 1
    /\ before_mount = "held"
    /\ after_mount = "held"
    /\ before_recover = [s \in Slots |-> "held"]
    /\ after_recover = [s \in Slots |-> "held"]
    /\ mounted = FALSE
    /\ enabled = FALSE
    /\ pipe = 0
    /\ signals = 0
    /\ exit_code = "none"
    /\ last_err = "none"
    /\ resume_calls = 0
    /\ mount_called = FALSE
    /\ fuse_node = "none"
    /\ iw_failed_at = "none"
    /\ host_failed_at = "none"

\* The attribute record a call is handed: the file's own attributes.
Attr0 == [size |-> 0, mode |-> 0, uid |-> 0]

\* No call of the chain is in progress.
ChainIdle ==
    /\ conf = <<>>
    /\ injectors = <<>>
    /\ call = [op |-> "none", method |-> "none", path |-> "none"]
    /\ ci_idx = 1
    /\ ci_invoked = <<>>
    /\ ci_returns = <<>>
    /\ ci_result = "none"
    /\ clock = 0
    /\ attr = Attr0

Requests == 1..MaxRequests

\* A request the session has not handed over yet.
NoRequest == [op |-> "none", pc |-> "new", result |-> "none", got |-> <<>>]

\* No filesystem has been built.
DispatchIdle ==
    /\ thread_pool = "none"
    /\ next_req = 1
    /\ req = [r \in Requests |-> NoRequest]

Init == OrchInit /\ ChainIdle /\ DispatchIdle

HostNext ==
    \/ Setup
    \/ ParseConfig
    \/ ReadFuseDev
    \/ SpawnInjectWorker
    \/ WaitBeforeMount
    \/ CreateInjection
    \/ Mount
    \/ DropAfterMountGuard
    \/ JoinInjectWorker
    \/ EnableInjection
    \/ ReadSignal
    \/ DisableInjection
    \/ SpawnRecoverWorker
    \/ WaitBeforeRecover
    \/ RecoverMount
    \/ Retry
    \/ DropAfterRecoverGuard
    \/ JoinRecoverWorker
    \/ Exit

IwNext ==
    \/ IwCanonicalize
    \/ IwPrepare
    \/ IwMkfuseNode
    \/ IwDropBeforeMountGuard
    \/ IwWaitAfterMount
    \/ IwRun
    \/ IwDropReplacer
    \/ IwUnwind
    \/ IwEnvDrop

RwNext(s) ==
    \/ RwCanonicalize(s)
    \/ RwPrepare(s)
    \/ RwRun(s)
    \/ RwDropBeforeRecoverGuard(s)
    \/ RwWaitAfterRecover(s)
    \/ RwDropReplacer(s)
    \/ RwUnwind(s)
    \/ RwEnvDrop(s)

Next ==
    \/ HostNext
    \/ SignalHandler
    \/ IwNext
    \/ \E s \in Slots : RwNext(s)

Spec == Init /\ [][Next]_vars

\* ------------------------------------------------------ the injector chain
\* Most injector records one configuration holds.
MaxInjectors == 3

Methods == {"open", "read"}

Paths == {"/a", "/b"}

\* The injector records a configuration is made of here: a fault on every
\* open, a fault on half the reads of /a, a latency on every open, a latency
\* on /b that never fires, an override of the size of /a, and an override
\* of the size and the owner of every file.  `sets` names the fields an
\* AttrOverride record overrides, `attr` holds their values.
InjectorConfigs ==
    { [kind |-> "Fault", methods |-> {"open"}, path |-> "*",
       errno |-> "EACCES", delay |-> 0, percent |-> 100,
       sets |-> {}, attr |-> Attr0],
      [kind |-> "Fault", methods |-> {"open", "read"}, path |-> "/a",
       errno |-> "EIO", delay |-> 0, percent |-> 50,
       sets |-> {}, attr |-> Attr0],
      [kind |-> "Latency", methods |-> {"open"}, path |-> "*",
       errno |-> "none", delay |-> 2, percent |-> 100,
       sets |-> {}, attr |-> Attr0],
      [kind |-> "Latency", methods |-> {"open", "read"}, path |-> "/b",
       errno |-> "none", delay |-> 1, percent |-> 0,
       sets |-> {}, attr |-> Attr0],
      [kind |-> "AttrOverride", methods |-> {}, path |-> "/a",
       errno |-> "none", delay |-> 0, percent |-> 100,
       sets |-> {"size"}, attr |-> [size |-> 1, mode |-> 0, uid |-> 0]],
      [kind |-> "AttrOverride", methods |-> {}, path |-> "*",
       errno |-> "none", delay |-> 0, percent |-> 100,
       sets |-> {"size", "uid"},
       attr |-> [size |-> 2, mode |-> 0, uid |-> 2]] }

SeqsUpTo(S, n) == UNION {[1..k -> S] : k \in 0..n}

\* A faulty variant of build: the injectors are pushed to the front of the list.
build_Reversed(c) == [i \in 1..Len(c) |-> c[Len(c) + 1 - i]]

\* MultiInjector::build: one injector per record, pushed in the order of the
\* configuration.
build(c) == [i \in 1..Len(c) |-> c[i]]

\* The filter of an injector: the method is one of its methods and the path
\* matches its glob.
Matches(inj, method, path) ==
    /\ method \in inj.methods
    /\ inj.path = "*" \/ inj.path = path

\* The filter of an attribute override: the path matches its glob.
MatchesPath(inj, path) == inj.path = "*" \/ inj.path = path

\* Whether a matching rule fires is drawn per call against its percent.
Fires(inj) ==
    IF inj.percent = 100 THEN {TRUE}
    ELSE IF inj.percent = 0 THEN {FALSE}
    ELSE {TRUE, FALSE}

\* Injector::inject of one injector: what it returns and how long it
\* suspends the task, given whether it fires.
InjectorInject(inj, method, path, fires) ==
    IF Matches(inj, method, path) /\ fires
    THEN IF inj.kind = "Fault" THEN [ret |-> inj.errno, slept |-> 0]
         ELSE IF inj.kind = "Latency" THEN [ret |-> "Ok", slept |-> inj.delay]
         ELSE [ret |-> "Ok", slept |-> 0]
    ELSE [ret |-> "Ok", slept |-> 0]

\* Injector::inject_attr of one injector: an attribute override whose glob
\* matches overwrites the fields it names; every other injector leaves the
\* record alone.
InjectorInjectAttr(inj, a, path) ==
    IF inj.kind = "AttrOverride" /\ MatchesPath(inj, path)
    THEN [f \in DOMAIN a |-> IF f \in inj.sets THEN inj.attr[f] ELSE a[f]]
    ELSE a

\* Injector::inject_reply returns a Result<()>: what one injector may return.
ReplyReturns == {"Ok", "EIO"}

\* Injector::inject_reply of one injector, given what it returns: the
\* attributes carried by the reply are overridden as by inject_attr; an
\* injector that returns Err leaves the reply as it found it.
InjectorInjectReply(inj, reply, path, ret) ==
    IF ret = "Ok" THEN InjectorInjectAttr(inj, reply, path) ELSE reply

ChainRest == UNCHANGED <<orch_vars, disp_vars>>

\* A call of MultiInjector.inject(method, path), of
\* MultiInjector.inject_reply(method, path, reply) or of
\* MultiInjector.inject_attr(attr, path) begins on a chain built from a
\* configuration.
ChainInit ==
    /\ OrchInit /\ DispatchIdle
    /\ conf \in SeqsUpTo(InjectorConfigs, MaxInjectors)
    /\ injectors = build(conf)
    /\ \/ \E o \in {"inject", "inject_reply"}, m \in Methods, p \in Paths :
            call = [op |-> o, method |-> m, path |-> p]
       \/ \E p \in Paths :
            call = [op |-> "inject_attr", method |-> "none", path |-> p]
    /\ ci_idx = 1
    /\ ci_invoked = <<>>
    /\ ci_returns = <<>>
    /\ ci_result = "none"
    /\ clock = 0
    /\ attr = Attr0

\* A faulty variant of InjectLoop: the Err of an injector is dropped, not returned.
InjectLoop_IgnoreErr ==
    /\ call.op = "inject" /\ ci_result = "none"
    /\ ci_idx <= Len(injectors)
    /\ \E fires \in Fires(injectors[ci_idx]) :
         LET r == InjectorInject(injectors[ci_idx], call.method, call.path,
                                 fires)
         IN  /\ ci_invoked' = Append(ci_invoked, ci_idx)
             /\ ci_returns' = Append(ci_returns, r.ret)
             /\ clock' = clock + r.slept
             /\ ci_idx' = ci_idx + 1
             /\ UNCHANGED ci_result
    /\ UNCHANGED <<conf, injectors, call, attr>> /\ ChainRest

\* A faulty variant of InjectLoop: the future of an injector is created but never
\* awaited, so the injector neither suspends the call nor fails it.
InjectLoop_NotAwaited ==
    /\ call.op = "inject" /\ ci_result = "none"
    /\ ci_idx <= Len(injectors)
    /\ ci_invoked' = Append(ci_invoked, ci_idx)
    /\ ci_returns' = Append(ci_returns, "Ok")
    /\ ci_idx' = ci_idx + 1
    /\ UNCHANGED <<conf, injectors, call, attr, clock, ci_result>> /\ ChainRest

\* multi_injector.rs 47-49: one iteration of
\* `for injector in self.injectors.iter() { injector.inject(..).await? }`.
InjectLoop ==
    /\ call.op = "inject" /\ ci_result = "none"
    /\ ci_idx <= Len(injectors)
    /\ \E fires \in Fires(injectors[ci_idx]) :
         LET r == InjectorInject(injectors[ci_idx], call.method, call.path,
                                 fires)
         IN  /\ ci_invoked' = Append(ci_invoked, ci_idx)
             /\ ci_returns' = Append(ci_returns, r.ret)
             /\ clock' = clock + r.slept
             /\ IF r.ret = "Ok"
                THEN ci_idx' = ci_idx + 1 /\ UNCHANGED ci_result
                ELSE ci_result' = r.ret /\ UNCHANGED ci_idx
    /\ UNCHANGED <<conf, injectors, call, attr>> /\ ChainRest

\* A faulty variant of InjectReturnOk: a chain without injectors is reported as an
\* error.
InjectReturnOk_EmptyIsErr ==
    /\ call.op = "inject" /\ ci_result = "none"
    /\ ci_idx > Len(injectors)
    /\ ci_result' = IF Len(injectors) = 0 THEN "EINVAL" ELSE "Ok"
    /\ UNCHANGED <<conf, injectors, call, ci_idx, ci_invoked, ci_returns,
                   clock, attr>>
    /\ ChainRest

\* multi_injector.rs 51: Ok(()) once the loop has run off the list.
InjectReturnOk ==
    /\ call.op = "inject" /\ ci_result = "none"
    /\ ci_idx > Len(injectors)
    /\ ci_result' = "Ok"
    /\ UNCHANGED <<conf, injectors, call, ci_idx, ci_invoked, ci_returns,
                   clock, attr>>
    /\ ChainRest

\* multi_injector.rs 55-57: one iteration of
\* `for injector in self.injectors.iter() { injector.inject_reply(..)? }`.
InjectReplyLoop ==
    /\ call.op = "inject_reply" /\ ci_result = "none"
    /\ ci_idx <= Len(injectors)
    /\ \E ret \in ReplyReturns :
         /\ ci_invoked' = Append(ci_invoked, ci_idx)
         /\ ci_returns' = Append(ci_returns, ret)
         /\ attr' = InjectorInjectReply(injectors[ci_idx], attr, call.path,
                                        ret)
         /\ IF ret = "Ok"
            THEN ci_idx' = ci_idx + 1 /\ UNCHANGED ci_result
            ELSE ci_result' = ret /\ UNCHANGED ci_idx
    /\ UNCHANGED <<conf, injectors, call, clock>> /\ ChainRest

\* multi_injector.rs 59: Ok(()) once the loop has run off the list.
InjectReplyReturnOk ==
    /\ call.op = "inject_reply" /\ ci_result = "none"
    /\ ci_idx > Len(injectors)
    /\ ci_result' = "Ok"
    /\ UNCHANGED <<conf, injectors, call, ci_idx, ci_invoked, ci_returns,
                   clock, attr>>
    /\ ChainRest

\* A faulty variant of InjectAttrLoop: the loop is left after the first injector
\* that changed the record.
InjectAttrLoop_StopsAtFirstChange ==
    /\ call.op = "inject_attr" /\ ci_result = "none"
    /\ ci_idx <= Len(injectors)
    /\ ci_invoked' = Append(ci_invoked, ci_idx)
    /\ ci_returns' = Append(ci_returns, "Unit")
    /\ attr' = InjectorInjectAttr(injectors[ci_idx], attr, call.path)
    /\ ci_idx' = IF attr' = attr THEN ci_idx + 1 ELSE Len(injectors) + 1
    /\ UNCHANGED <<conf, injectors, call, clock, ci_result>> /\ ChainRest

\* multi_injector.rs 63-65: one iteration of
\* `for injector in self.injectors.iter() { injector.inject_attr(attr, path) }`.
InjectAttrLoop ==
    /\ call.op = "inject_attr" /\ ci_result = "none"
    /\ ci_idx <= Len(injectors)
    /\ ci_invoked' = Append(ci_invoked, ci_idx)
    /\ ci_returns' = Append(ci_returns, "Unit")
    /\ attr' = InjectorInjectAttr(injectors[ci_idx], attr, call.path)
    /\ ci_idx' = ci_idx + 1
    /\ UNCHANGED <<conf, injectors, call, clock, ci_result>> /\ ChainRest

\* multi_injector.rs 66: inject_attr returns once the loop has run off the
\* list.
InjectAttrReturn ==
    /\ call.op = "inject_attr" /\ ci_result = "none"
    /\ ci_idx > Len(injectors)
    /\ ci_result' = "Unit"
    /\ UNCHANGED <<conf, injectors, call, ci_idx, ci_invoked, ci_returns,
                   clock, attr>>
    /\ ChainRest

ChainNext ==
    \/ InjectLoop
    \/ InjectReturnOk
    \/ InjectReplyLoop
    \/ InjectReplyReturnOk
    \/ InjectAttrLoop
    \/ InjectAttrReturn

ChainSpec == ChainInit /\ [][ChainNext]_vars

\* ------------------------------------------------------- the dispatcher
\* The callbacks that hand their reply sink to AsyncFileSystem::spawn
\* (lookup, mknod, mkdir, unlink, rmdir, symlink, link, open, flush, fsync,
\* opendir, releasedir, fsyncdir, removexattr, access, setlk all have the
\* body of lookup), and those that hand it to the implementation method
\* (read, write and the like).
SpawnOps == {"lookup"}

DirectOps == {"read"}

\* What an implementation method may return for request r.
Results(r) == {[of |-> r, val |-> "Ok"], [of |-> r, val |-> "ENOENT"]}

\* The tasks that hold a worker thread of the runtime.
OnThread == {r \in Requests : req[r].pc \in {"running", "completed"}}

DispatchRest == UNCHANGED <<orch_vars, chain_vars>>

\* From<T> for AsyncFileSystem: the filesystem is built with its own runtime.
DispatchInit ==
    /\ OrchInit /\ ChainIdle
    /\ thread_pool = "alive"
    /\ next_req = 1
    /\ req = [r \in Requests |-> NoRequest]

\* A faulty variant of CallbackSpawn: the callback blocks on the task it spawned,
\* so it returns to the session only when the reply has been made.
CallbackSpawn_BlockOn(op) ==
    /\ thread_pool = "alive" /\ next_req <= MaxRequests
    /\ \A r \in 1..(next_req - 1) : req[r].pc \in {"done", "cancelled"}
    /\ req' = [req EXCEPT ![next_req] = [@ EXCEPT !.op = op,
                                                  !.pc = "scheduled"]]
    /\ next_req' = next_req + 1
    /\ UNCHANGED thread_pool /\ DispatchRest

\* Filesystem::lookup and its like: the callback clones the implementation,
\* owns its arguments, schedules `async { let result = f.await;
\* reply.reply(result) }` on the runtime and returns to the session.
CallbackSpawn(op) ==
    /\ thread_pool = "alive" /\ next_req <= MaxRequests
    /\ req' = [req EXCEPT ![next_req] = [@ EXCEPT !.op = op,
                                                  !.pc = "scheduled"]]
    /\ next_req' = next_req + 1
    /\ UNCHANGED thread_pool /\ DispatchRest

\* Filesystem::read and its like: the callback schedules the implementation
\* method, which owns the reply sink, and returns to the session.
CallbackDirect(op) ==
    /\ thread_pool = "alive" /\ next_req <= MaxRequests
    /\ req' = [req EXCEPT ![next_req] = [@ EXCEPT !.op = op,
                                                  !.pc = "scheduled"]]
    /\ next_req' = next_req + 1
    /\ UNCHANGED thread_pool /\ DispatchRest

\* A worker thread of the runtime takes a scheduled task.
TaskStart(r) ==
    /\ thread_pool = "alive"
    /\ req[r].pc = "scheduled"
    /\ Cardinality(OnThread) < PoolThreads
    /\ req' = [req EXCEPT ![r].pc = "running"]
    /\ UNCHANGED <<thread_pool, next_req>> /\ DispatchRest

\* The implementation method awaits (an injected latency, a blocking call
\* moved off the worker): the task yields its thread.  A task that yields
\* after the runtime was dropped is dropped with it.
TaskSuspend(r) ==
    /\ req[r].pc = "running"
    /\ req' = [req EXCEPT ![r].pc = IF thread_pool = "alive"
                                    THEN "suspended" ELSE "cancelled"]
    /\ UNCHANGED <<thread_pool, next_req>> /\ DispatchRest

\* What the task awaited is ready and a worker thread takes the task again.
TaskResume(r) ==
    /\ thread_pool = "alive"
    /\ req[r].pc = "suspended"
    /\ Cardinality(OnThread) < PoolThreads
    /\ req' = [req EXCEPT ![r].pc = "running"]
    /\ UNCHANGED <<thread_pool, next_req>> /\ DispatchRest

\* `let result = f.await;`: the implementation method of a task scheduled
\* by spawn returns its Result.
MethodReturns(r) ==
    /\ req[r].pc = "running" /\ req[r].op \in SpawnOps
    /\ \E res \in Results(r) :
         req' = [req EXCEPT ![r] = [@ EXCEPT !.pc = "completed",
                                             !.result = res]]
    /\ UNCHANGED <<thread_pool, next_req>> /\ DispatchRest

\* `reply.reply(result);`: the task hands the Result to the request's sink
\* and ends.
SinkReply(r) ==
    /\ req[r].pc = "completed"
    /\ req' = [req EXCEPT ![r] = [@ EXCEPT !.pc = "done",
                                           !.got = Append(@, req[r].result)]]
    /\ UNCHANGED <<thread_pool, next_req>> /\ DispatchRest

\* The implementation method of read and its like replies through the sink
\* it was given and returns.
MethodReplies(r) ==
    /\ req[r].pc = "running" /\ req[r].op \in DirectOps
    /\ \E res \in Results(r) :
         req' = [req EXCEPT ![r] = [@ EXCEPT !.pc = "done",
                                             !.result = res,
                                             !.got = Append(@, res)]]
    /\ UNCHANGED <<thread_pool, next_req>> /\ DispatchRest

\* The session is torn down and the AsyncFileSystem dropped, and with it the
\* runtime it owns: the runtime drops every task that is not on a thread,
\* scheduled or suspended; a task on a thread runs on until it next yields.
DropAsyncFileSystem ==
    /\ thread_pool = "alive"
    /\ thread_pool' = "dropped"
    /\ req' = [r \in Requests |->
                 IF req[r].pc \in {"scheduled", "suspended"}
                 THEN [req[r] EXCEPT !.pc = "cancelled"]
                 ELSE req[r]]
    /\ UNCHANGED next_req /\ DispatchRest

DispatchNext ==
    \/ \E op \in SpawnOps : CallbackSpawn(op)
    \/ \E op \in DirectOps : CallbackDirect(op)
    \/ \E r \in Requests : TaskStart(r)
    \/ \E r \in Requests : TaskSuspend(r)
    \/ \E r \in Requests : TaskResume(r)
    \/ \E r \in Requests : MethodReturns(r)
    \/ \E r \in Requests : SinkReply(r)
    \/ \E r \in Requests : MethodReplies(r)
    \/ DropAsyncFileSystem

DispatchSpec == DispatchInit /\ [][DispatchNext]_vars

\* The main thread and every worker are threads of the operating system:
\* each of them that can take a step eventually takes one.  Which way a call
\* returns, and whether a signal arrives, is left open.
FairSpec ==
    /\ Spec
    /\ WF_vars(HostNext)
    /\ WF_vars(IwNext)
    /\ \A s \in Slots : WF_vars(RwNext(s))

\* ------------------------------------------------------------------ claims
\* The host is between the return of before_mount_waiter.wait() and the
\* return of injection.mount(): the mount step is in progress.
HostMounting == hpc \in {"create_injection", "mount"}

\* C1: in every execution of inject the host starts the mount step only
\* after the worker's replacer.prepare and mkfuse_node have returned, the
\* worker starts replacer.run only after the host's mount call has returned,
\* and neither worker step overlaps with the mount.
C1_MountBetweenPrepareAndRun ==
    /\ HostMounting => /\ fuse_node = "returned"
                       /\ iw.pc \notin {"canonicalize", "prepare",
                                         "mkfuse_node", "run"}
    /\ iw.pc = "run" => mount_called /\ ~HostMounting

\* C2: whenever injection is enabled the mount is established, the worker of
\* inject has been joined and no recovery worker has been spawned; once
\* resume has disabled injection it stays disabled.
C2_EnabledOnlyWhileMountedAndQuiet ==
    /\ enabled => /\ mounted
                  /\ iw.pc = "done"
                  /\ \A s \in Slots : rw[s].pc = "idle"
    /\ (resume_calls > 0 /\ hpc # "disable_injection") => ~enabled

\* Injection is enabled on a mounted filesystem, after a worker that ran.
C2_Witness == enabled /\ mounted /\ iw.result = "Ok" /\ hpc = "read_signal"

\* C3: when canonicalize or replacer.prepare fails in the worker of inject,
\* the host does not call mount, injection is never enabled and inject does
\* not return Ok.
C3_EarlyWorkerFailureIsFatal ==
    iw_failed_at \in {"canonicalize", "prepare"} =>
        /\ ~mount_called
        /\ ~enabled
        /\ hpc \notin {"read_signal", "disable_injection"}
        /\ resume_calls = 0

\* C4: the process exits with code 0 only if every step of inject, the
\* worker's included, and every step of the last recovery attempt, the
\* worker's included, succeeded.
C4_ExitZeroOnlyIfEveryStepSucceeded ==
    exit_code = "zero" => /\ iw.result = "Ok"
                          /\ rw[cur].result = "Ok"
                          /\ last_err = "Ok"

\* C5: in every recovery attempt recover_mount is called with injection
\* disabled and only after the worker's prepare and run have returned, and
\* the worker drops its replacer only after recover_mount has returned.
C5_RecoverBetweenRunAndDrop ==
    /\ hpc = "recover_mount" => /\ ~enabled
                                /\ rw[cur].replacer = "ran"
                                /\ rw[cur].pc \notin {"prepare", "run"}
    /\ hpc \in {"wait_before_recover", "recover_mount"} =>
           rw[cur].replacer # "dropped"

\* C6: resume terminates: once main has called it, it eventually returns.
C6_ResumeTerminates ==
    (resume_calls > 0) ~> (hpc \in {"resume_ok", "resume_err"})

\* C7: after recover_mount failed with an error other than EBUSY, no new
\* recovery attempt is started: no new worker is spawned.
C7_OnlyEbusyIsRetried ==
    last_err \notin {"none", "Ok", "EBUSY"} => hpc # "wait_before_recover"

\* C8: when resume returns Ok, the last recover_mount succeeded, so the mount
\* is gone, injection is disabled, and the worker of the last attempt has
\* returned with its replacer detached.
C8_ResumeOkMeansRecovered ==
    hpc = "resume_ok" => /\ last_err = "Ok"
                         /\ ~mounted
                         /\ ~enabled
                         /\ rw[cur].pc = "done"
                         /\ ~Attached(rw[cur])

\* resume has returned Ok after a worker that moved the descriptors back.
C8_Witness == hpc = "resume_ok" /\ rw[cur].result = "Ok"

\* C9: a signal delivered once the handlers are installed makes main start
\* resume, unless inject fails; a token written while inject runs stays in
\* the pipe until main reads it; resume is started at most once, and never
\* before a signal arrived.
C9_SignalStartsRecoveryOnce ==
    /\ [](resume_calls <= 1)
    /\ [](resume_calls > 0 => signals > 0)
    /\ []((signals > 0 /\ resume_calls = 0) => pipe > 0)
    /\ (signals > 0) ~> (resume_calls > 0 \/ hpc = "inject_err")

\* More than one signal has arrived, resume has been started once and a
\* token that was never read is left in the pipe.
C9_Witness == resume_calls = 1 /\ signals > 1 /\ pipe > 0

\* C10: MultiInjector.inject invokes the injectors in list order and stops at
\* the first that returns Err: it returns that Err, invokes no injector after
\* it, and returns Ok exactly when every injector of the list returned Ok.
C10_InjectStopsAtFirstErr ==
    call.op = "inject" =>
        /\ Len(ci_returns) = Len(ci_invoked)
        /\ \A i \in 1..Len(ci_invoked) : ci_invoked[i] = i
        /\ \A i \in 1..Len(ci_returns) :
               i < Len(ci_returns) => ci_returns[i] = "Ok"
        /\ ci_result = "none" =>
               \A i \in 1..Len(ci_returns) : ci_returns[i] = "Ok"
        /\ ci_result = "Ok" =>
               /\ Len(ci_invoked) = Len(injectors)
               /\ \A i \in 1..Len(ci_returns) : ci_returns[i] = "Ok"
        /\ ci_result \notin {"none", "Ok"} =>
               /\ ci_returns # <<>>
               /\ ci_result = ci_returns[Len(ci_returns)]

\* inject returned the Err of an injector that is not the last of the list,
\* after an injector that returned Ok.
C10_Witness ==
    /\ call.op = "inject"
    /\ ci_result \notin {"none", "Ok"}
    /\ Len(ci_invoked) > 1
    /\ Len(ci_invoked) < Len(injectors)

\* C11: when MultiInjector.inject_reply has returned, it has invoked
\* inject_reply on every injector of the list, in list order, whatever the
\* earlier injectors returned.
C11_InjectReplyInvokesEveryInjector ==
    (call.op = "inject_reply" /\ ci_result # "none") =>
        /\ Len(ci_invoked) = Len(injectors)
        /\ \A i \in 1..Len(ci_invoked) : ci_invoked[i] = i

\* C12: MultiInjector.inject_attr invokes every injector exactly once, in
\* list order; when it has returned, a field that no matching override names
\* has the value it came with, and every other field has the value of the
\* last matching override that names it.
C12_InjectAttrComposesInOrder ==
    call.op = "inject_attr" =>
        /\ \A i \in 1..Len(ci_invoked) : ci_invoked[i] = i
        /\ ci_result # "none" =>
             /\ Len(ci_invoked) = Len(injectors)
             /\ \A f \in DOMAIN Attr0 :
                  LET setters == {i \in 1..Len(injectors) :
                                    /\ injectors[i].kind = "AttrOverride"
                                    /\ MatchesPath(injectors[i], call.path)
                                    /\ f \in injectors[i].sets}
                  IN  IF setters = {}
                      THEN attr[f] = Attr0[f]
                      ELSE \E l \in setters :
                             /\ \A i \in setters : i <= l
                             /\ attr[f] = injectors[l].attr[f]

\* inject_attr returned on a chain in which two overrides gave the size two
\* different values: the record carries the later one, and its mode, which
\* no override names, is the one it came with.
C12_Witness ==
    /\ call.op = "inject_attr" /\ ci_result # "none"
    /\ \E i, j \in 1..Len(injectors) :
         /\ i < j
         /\ injectors[i].kind = "AttrOverride"
         /\ injectors[j].kind = "AttrOverride"
         /\ MatchesPath(injectors[i], call.path)
         /\ MatchesPath(injectors[j], call.path)
         /\ injectors[i].attr.size # injectors[j].attr.size
         /\ attr.size = injectors[j].attr.size
    /\ attr.mode = Attr0.mode

\* C13 as stated: on a chain built from a configuration that holds a Latency
\* record and a Fault record which both match the call with percent 100,
\* inject returns only after it was suspended for the latency's duration,
\* and returns the errno of such a fault.
C13_LatencyFiresBeforeFault ==
    (call.op = "inject" /\ ci_result # "none") =>
        \A i, j \in 1..Len(conf) :
            ( /\ conf[i].kind = "Latency" /\ conf[i].percent = 100
              /\ Matches(conf[i], call.method, call.path)
              /\ conf[j].kind = "Fault" /\ conf[j].percent = 100
              /\ Matches(conf[j], call.method, call.path) )
            => /\ clock >= conf[i].delay
               /\ \E k \in 1..Len(conf) :
                    /\ conf[k].kind = "Fault"
                    /\ Matches(conf[k], call.method, call.path)
                    /\ ci_result = conf[k].errno

\* C13, amended: the injectors fire in the order of the configuration.  Let
\* record j be a Fault matching the call with percent 100, with no matching
\* Fault record before it.  inject invokes exactly the first j injectors and
\* returns the errno of record j; it has then been suspended for at least
\* the duration of every Latency record that matches with percent 100 and
\* stands before j, and not at all when no matching Latency stands before j.
C13_FiresInConfigurationOrder ==
    (call.op = "inject" /\ ci_result # "none") =>
        \A j \in 1..Len(conf) :
            ( /\ conf[j].kind = "Fault" /\ conf[j].percent = 100
              /\ Matches(conf[j], call.method, call.path)
              /\ \A k \in 1..(j - 1) :
                    ~(/\ conf[k].kind = "Fault"
                      /\ Matches(conf[k], call.method, call.path)) )
            => /\ Len(ci_invoked) = j
               /\ ci_result = conf[j].errno
               /\ \A i \in 1..(j - 1) :
                    ( /\ conf[i].kind = "Latency" /\ conf[i].percent = 100
                      /\ Matches(conf[i], call.method, call.path) )
                    => clock >= conf[i].delay
               /\ (\A i \in 1..(j - 1) :
                    ~(/\ conf[i].kind = "Latency"
                      /\ Matches(conf[i], call.method, call.path)))
                  => clock = 0

\* inject was suspended by a latency that stands before the fault in the
\* configuration, and then returned the fault's errno.
C13_Witness ==
    /\ call.op = "inject" /\ ci_result \notin {"none", "Ok"}
    /\ \E i, j \in 1..Len(conf) :
         /\ i < j
         /\ conf[i].kind = "Latency" /\ conf[i].percent = 100
         /\ Matches(conf[i], call.method, call.path)
         /\ conf[j].kind = "Fault" /\ conf[j].percent = 100
         /\ ci_result = conf[j].errno
         /\ Len(ci_invoked) = j
         /\ clock >= conf[i].delay /\ clock > 0

\* C14 as stated: on a chain that holds a Latency injector of duration D
\* matching the call with percent 100, inject has been suspended for at
\* least D when it returns, whatever else the chain holds and wherever the
\* Latency injector stands.
C14_LatencyLowerBound ==
    (call.op = "inject" /\ ci_result # "none") =>
        \A i \in 1..Len(injectors) :
            ( /\ injectors[i].kind = "Latency" /\ injectors[i].percent = 100
              /\ Matches(injectors[i], call.method, call.path) )
            => clock >= injectors[i].delay

\* C14, amended: on such a chain inject never returns Ok before D has
\* elapsed; it returns earlier only with the Err of an injector that stands
\* before the Latency injector, which is then never invoked.
C14_LatencyLowerBoundUnlessFailedBefore ==
    (call.op = "inject" /\ ci_result # "none") =>
        \A i \in 1..Len(injectors) :
            ( /\ injectors[i].kind = "Latency" /\ injectors[i].percent = 100
              /\ Matches(injectors[i], call.method, call.path) )
            => \/ clock >= injectors[i].delay
               \/ /\ ci_result # "Ok"
                  /\ Len(ci_invoked) < i

\* inject returned Ok after the latency of an injector that stands behind a
\* fault which matched the call and did not fire.
C14_Witness ==
    /\ call.op = "inject" /\ ci_result = "Ok"
    /\ \E i \in 2..Len(injectors) :
         /\ injectors[i].kind = "Latency" /\ injectors[i].percent = 100
         /\ Matches(injectors[i], call.method, call.path)
         /\ injectors[i - 1].kind = "Fault"
         /\ Matches(injectors[i - 1], call.method, call.path)
         /\ clock >= injectors[i].delay /\ clock > 0

\* C15: on a chain without injectors inject returns Ok without suspending,
\* inject_reply returns Ok and leaves the reply as it was, and inject_attr
\* leaves the attribute record as it was; no injector is invoked.
C15_EmptyChainIsIdentity ==
    (call.op # "none" /\ Len(injectors) = 0) =>
        /\ ci_invoked = <<>>
        /\ clock = 0
        /\ attr = Attr0
        /\ ci_result \in {"none",
                          IF call.op = "inject_attr" THEN "Unit" ELSE "Ok"}

\* inject returned on a chain without injectors.
C15_Witness ==
    /\ call.op = "inject" /\ Len(injectors) = 0 /\ ci_result = "Ok"

\* C16: for every request dispatched through AsyncFileSystem::spawn the
\* reply sink is invoked exactly once, after the implementation method of
\* that request has returned, and with exactly the Result it returned: the
\* sink is never invoked twice, never before the method has returned, never
\* with another Result, and a task that has ended has invoked it.
C16_ReplyOnceWithOwnResult ==
    \A r \in Requests :
        req[r].op \in SpawnOps =>
            /\ Len(req[r].got) <= 1
            /\ req[r].got # <<>> =>
                 /\ req[r].pc = "done"
                 /\ req[r].result \in Results(r)
                 /\ req[r].got[1] = req[r].result
            /\ req[r].pc \in {"done", "cancelled"} => Len(req[r].got) = 1

\* C17: a task scheduled by the dispatcher is never cancelled, not even
\* when the AsyncFileSystem and its runtime are dropped while the task is
\* suspended.
C17_NoTaskIsCancelled ==
    \A r \in Requests : req[r].pc # "cancelled"

\* C18: the dispatcher never waits for a task: while the filesystem is alive
\* the next request is accepted whatever the tasks of the earlier requests
\* are doing, and a task that is suspended holds no thread, so that a
\* scheduled task starts as soon as no other task is on a thread.
C18_DispatcherNeverWaits ==
    /\ (thread_pool = "alive" /\ next_req <= MaxRequests) =>
           /\ \A op \in SpawnOps : ENABLED CallbackSpawn(op)
           /\ \A op \in DirectOps : ENABLED CallbackDirect(op)
    /\ \A r \in Requests :
           ( /\ thread_pool = "alive"
             /\ req[r].pc = "scheduled"
             /\ \A o \in Requests \ {r} :
                    req[o].pc \notin {"running", "completed"} )
           => ENABLED TaskStart(r)

\* A request has been replied while a request dispatched before it is still
\* suspended.
C18_Witness ==
    \E r1, r2 \in Requests :
        /\ r1 < r2
        /\ req[r1].pc = "suspended"
        /\ req[r2].pc = "done"

C20_NoRunAfterFailedMount ==
    host_failed_at \in {"build", "create_injection", "mount"} =>
        /\ iw.pc # "drop_replacer"
        /\ iw.replacer # "ran"
        /\ iw.result # "Ok"
        /\ iw_failed_at # "run"

\* C21: during resume at most one recovery worker is alive at any time, and
\* a worker never starts replacer.prepare while the replacer of the worker
\* of an earlier attempt is still attached to the target.
C21_OneRecoveryWorkerAtATime ==
    \A s, t \in Slots :
        s # t =>
            /\ ~(Alive(rw[s]) /\ Alive(rw[t]))
            /\ ~(Attached(rw[s]) /\ rw[t].pc = "prepare")
            /\ ~(Attached(rw[s]) /\ Attached(rw[t]))

\* C22: no thread blocks forever on a latch.  Whenever a thread waits on a
\* latch that is still held, the guard of that latch is owned by a thread
\* that has not returned and has yet to drop it: the worker for the latches
\* the host waits on, the host inside inject or inside the current attempt
\* of resume for the latches a worker waits on.  While the process runs,
\* the guard of every latch a thread waits on is eventually released, and
\* every worker that was spawned eventually returns, unless the process
\* ends first.
C22_NoWaitBlocksForever ==
    /\ []( /\ (hpc = "wait_before_mount" /\ ~Released(before_mount))
                => Alive(iw)
           /\ (iw.pc = "wait" /\ ~Released(after_mount))
                => hpc \in {"wait_before_mount", "create_injection",
                            "mount", "drop_after_mount_guard"}
           /\ (hpc = "wait_before_recover" /\ ~Released(before_recover[cur]))
                => Alive(rw[cur])
           /\ \A s \in Slots :
                (rw[s].pc = "wait" /\ ~Released(after_recover[s]))
                  => /\ s = cur
                     /\ hpc \in {"wait_before_recover", "recover_mount",
                                 "retry", "drop_after_recover_guard"} )
    /\ (hpc = "wait_before_mount") ~> (Released(before_mount) \/ ~Running)
    /\ (iw.pc = "wait") ~> (Released(after_mount) \/ ~Running)
    /\ (hpc = "wait_before_recover") ~>
           (Released(before_recover[cur]) \/ ~Running)
    /\ \A s \in Slots :
           (rw[s].pc = "wait") ~> (Released(after_recover[s]) \/ ~Running)
    /\ Alive(iw) ~> (~Alive(iw) \/ ~Running)
    /\ \A s \in Slots : Alive(rw[s]) ~> (~Alive(rw[s]) \/ ~Running)

\* A recovery worker whose attempt failed was woken from its wait by the
\* guard the retry dropped, and has returned.
C22_Witness ==
    /\ hpc = "spawn_recover" /\ last_err \notin {"none", "Ok"}
    /\ rw[cur].pc = "done" /\ rw[cur].result = "Ok"
    /\ Released(after_recover[cur])

====
